---- MODULE Spec2Model ----
(***************************************************************************)
(* Model of src/control/crtc.rs of drm-rs: the CRTC resource handle, the   *)
(* Info snapshot loaded from a device, the mode-set call and the three     *)
(* hardware-cursor calls.  Every handler builds one fixed-layout record    *)
(* from its arguments, hands it to one ioctl and maps the ioctl's result   *)
(* to its own result with try!.                                            *)
(***************************************************************************)
EXTENDS Integers, Sequences, FiniteSets, TLC

VARIABLES
    made,       \* the handles the caller holds, built with from_raw: [raw, handle]
    infos,      \* Info values the caller holds, oldest first
    crtcState,  \* the device's CRTC state, by CRTC id
    issued,     \* the calls the caller issued, in order: [op, ok]
    wire,       \* the exchanges the device saw, in order: the request category
    lastCall,   \* arguments of the most recent call
    lastReq,    \* the record the device received in the most recent exchange
    lastRes     \* the Result the most recent call returned

vars == <<made, infos, crtcState, issued, wire, lastCall, lastReq, lastRes>>

----------------------------------------------------------------------------
(* Bounds of the model *)

MaxCalls == 2
MaxInfos == 1

----------------------------------------------------------------------------
(* Input domains *)

RawIds == {0, 65541}
FbIds == {0, 9}
BoIds == {7}
Positions == {<<0, 0>>, <<1, 2147483647>>}
DimensionsSet == {<<64, 64>>, <<0, 2147483647>>}
iPoints == {<<100, 200>>, <<-1, -2147483647>>}

ZeroModeInfo == [clock |-> 0, hdisplay |-> 0, vdisplay |-> 0, vrefresh |-> 0]
Mode1080 == [clock |-> 148500, hdisplay |-> 1920, vdisplay |-> 1080, vrefresh |-> 60]

\* control::Mode wraps the timing block in its field `mode`
Modes == {[mode |-> Mode1080], [mode |-> ZeroModeInfo]}

None == [some |-> FALSE]
Some(v) == [some |-> TRUE, val |-> v]
OptModes == {None} \cup {Some(m) : m \in Modes}

\* The caller's memory holding connector handles, one 4-byte handle per word.
Mem == (4096 :> 3) @@ (4100 :> 2) @@ (4104 :> 3) @@ (4108 :> 2) @@ (4112 :> 3)

\* A slice &[ConHandle] is an address and a length.
Slices == {[ptr |-> 4096, len |-> 0], [ptr |-> 4100, len |-> 2],
           [ptr |-> 4108, len |-> 2]}

SliceElems(s) == [i \in 1..s.len |-> Mem[s.ptr + 4 * (i - 1)]]
as_ptr(s) == s.ptr
len(s) == s.len

\* `as u64` of an address and `as u32` of a length keep the low 64 and 32 bits.
\* Every address and length drawn here is below 2^31, where the low bits are
\* the value itself.
AsU64(n) == n
AsU32(n) == n

----------------------------------------------------------------------------
(* Result<T> *)

Ok(v) == [ok |-> TRUE, val |-> v]
Err(e) == [ok |-> FALSE, err |-> e]
Unit == <<>>

----------------------------------------------------------------------------
(* Handle *)

\* Mutant of from_raw: the identifier is narrowed to 16 bits.
from_raw_truncating(raw) == <<raw % 65536>>

\* struct Handle(control::RawHandle): a one-field tuple struct
from_raw(raw) == <<raw>>
as_raw(h) == h[1]

\* #[derive(PartialEq, Eq)]: field-wise comparison
HandleEq(a, b) == a[1] = b[1]

\* framebuffer::Handle, connector::Handle and buffer::Id follow the same
\* pattern
fb_from_raw(raw) == <<raw>>
fb_as_raw(h) == h[1]
bo_as_raw(b) == b[1]

----------------------------------------------------------------------------
(* ffi records and constants *)

DRM_MODE_CURSOR_BO == 1
DRM_MODE_CURSOR_MOVE == 2

\* Default::default() of ffi::drm_mode_crtc
DefaultCrtc ==
    [set_connectors_ptr |-> 0, count_connectors |-> 0, crtc_id |-> 0,
     fb_id |-> 0, x |-> 0, y |-> 0, gamma_size |-> 0, mode_valid |-> 0,
     mode |-> ZeroModeInfo]

\* Default::default() of ffi::drm_mode_cursor
DefaultCursor ==
    [flags |-> 0, crtc_id |-> 0, x |-> 0, y |-> 0, width |-> 0, height |-> 0,
     handle |-> 0]

\* Default::default() of ffi::drm_mode_cursor2
DefaultCursor2 ==
    [flags |-> 0, crtc_id |-> 0, x |-> 0, y |-> 0, width |-> 0, height |-> 0,
     handle |-> 0, hot_x |-> 0, hot_y |-> 0]

----------------------------------------------------------------------------
(* The records the handlers build *)

load_raw(handle) == [DefaultCrtc EXCEPT !.crtc_id = handle[1]]

\* Mutant of set_mode: the flag is raised whether or not a mode was given.
set_mode_always_valid(raw, mode) ==
    IF mode.some
    THEN [raw EXCEPT !.mode = mode.val.mode, !.mode_valid = 1]
    ELSE [raw EXCEPT !.mode_valid = 1]

set_mode(raw, mode) ==
    IF mode.some
    THEN [raw EXCEPT !.mode = mode.val.mode, !.mode_valid = 1]
    ELSE raw

\* Mutant of set_raw: the connector count is never filled in.
set_raw_no_count(handle, fb, cons, position, mode) ==
    set_mode([DefaultCrtc EXCEPT !.x = position[1],
                                 !.y = position[2],
                                 !.crtc_id = as_raw(handle),
                                 !.fb_id = fb_as_raw(fb),
                                 !.set_connectors_ptr = AsU64(as_ptr(cons))],
             mode)

\* Mutant of set_raw: x and y are taken from the wrong components.
set_raw_swapped_position(handle, fb, cons, position, mode) ==
    set_mode([DefaultCrtc EXCEPT !.x = position[2],
                                 !.y = position[1],
                                 !.crtc_id = as_raw(handle),
                                 !.fb_id = fb_as_raw(fb),
                                 !.set_connectors_ptr = AsU64(as_ptr(cons)),
                                 !.count_connectors = AsU32(len(cons))],
             mode)

set_raw(handle, fb, cons, position, mode) ==
    set_mode([DefaultCrtc EXCEPT !.x = position[1],
                                 !.y = position[2],
                                 !.crtc_id = as_raw(handle),
                                 !.fb_id = fb_as_raw(fb),
                                 !.set_connectors_ptr = AsU64(as_ptr(cons)),
                                 !.count_connectors = AsU32(len(cons))],
             mode)

set_cursor_raw(handle, bo, dimensions) ==
    [DefaultCursor EXCEPT !.flags = DRM_MODE_CURSOR_BO,
                          !.crtc_id = as_raw(handle),
                          !.width = dimensions[1],
                          !.height = dimensions[2],
                          !.handle = bo_as_raw(bo)]

\* Mutant of set_cursor2_raw: the hotspot components are exchanged.
set_cursor2_raw_swapped_hotspot(handle, bo, dimensions, hotspot) ==
    [DefaultCursor2 EXCEPT !.flags = DRM_MODE_CURSOR_BO,
                           !.crtc_id = as_raw(handle),
                           !.width = dimensions[1],
                           !.height = dimensions[2],
                           !.handle = bo_as_raw(bo),
                           !.hot_x = hotspot[2],
                           !.hot_y = hotspot[1]]

set_cursor2_raw(handle, bo, dimensions, hotspot) ==
    [DefaultCursor2 EXCEPT !.flags = DRM_MODE_CURSOR_BO,
                           !.crtc_id = as_raw(handle),
                           !.width = dimensions[1],
                           !.height = dimensions[2],
                           !.handle = bo_as_raw(bo),
                           !.hot_x = hotspot[1],
                           !.hot_y = hotspot[2]]

\* Mutant of move_cursor_raw: the image-attach flag instead of the move flag.
move_cursor_raw_bo_flag(handle, to) ==
    [DefaultCursor EXCEPT !.flags = DRM_MODE_CURSOR_BO,
                          !.crtc_id = as_raw(handle),
                          !.x = to[1],
                          !.y = to[2]]

move_cursor_raw(handle, to) ==
    [DefaultCursor EXCEPT !.flags = DRM_MODE_CURSOR_MOVE,
                          !.crtc_id = as_raw(handle),
                          !.x = to[1],
                          !.y = to[2]]

----------------------------------------------------------------------------
(* The device: the CRTCs it exposes and how it answers an exchange *)

DevCrtcs == {65541}

InitCrtc == [x |-> 0, y |-> 0, fb_id |-> 0, gamma_size |-> 256]

\* What the device may answer to a request naming crtc_id: an identifier it
\* does not expose is rejected, any other request is accepted or rejected.
Outcomes(crtc_id) ==
    IF crtc_id \in DevCrtcs THEN {"OK", "EINVAL"} ELSE {"ENOENT"}

\* The connector list the device reads through the pointer of a request
ReadUser(ptr, count) == [i \in 1..count |-> Mem[ptr + 4 * (i - 1)]]

\* ffi::ioctl_mode_getcrtc(fd, &mut raw): the result and raw after the call
ioctl_mode_getcrtc(raw, out, st) ==
    IF out = "OK"
    THEN [res |-> Ok(0),
          raw |-> [raw EXCEPT !.x = st[raw.crtc_id].x,
                              !.y = st[raw.crtc_id].y,
                              !.fb_id = st[raw.crtc_id].fb_id,
                              !.gamma_size = st[raw.crtc_id].gamma_size]]
    ELSE [res |-> Err(out), raw |-> raw]

\* ffi::ioctl_mode_setcrtc(fd, &mut raw): the result and the device's state
\* after the call; a rejected request commits nothing
ioctl_mode_setcrtc(raw, out, st) ==
    IF out = "OK"
    THEN [res |-> Ok(0),
          st |-> [st EXCEPT ![raw.crtc_id] =
                     [@ EXCEPT !.x = raw.x, !.y = raw.y, !.fb_id = raw.fb_id]]]
    ELSE [res |-> Err(out), st |-> st]

\* ffi::ioctl_mode_cursor and ffi::ioctl_mode_cursor2
ioctl_mode_cursor(raw, out) == IF out = "OK" THEN Ok(0) ELSE Err(out)

\* From::from of try!: the channel's error wrapped in the crate's one error
\* category
ErrFrom(e) == [kind |-> "DeviceExchangeFailed", cause |-> e]

----------------------------------------------------------------------------
(* try! and the handlers' results *)

\* Mutant of try: the error is dropped and the handler carries on.
try_ignoring_error(res) == [ret |-> FALSE, val |-> 0]

\* try!(expr): Ok(v) yields v, Err(e) returns Err(From::from(e)) at once
try(res) ==
    IF res.ok
    THEN [ret |-> FALSE, val |-> res.val]
    ELSE [ret |-> TRUE, val |-> Err(ErrFrom(res.err))]

\* Mutant of load_info: position built as (y, x).
load_info_swapped_position(handle, raw) ==
    [handle |-> handle,
     position |-> <<raw.y, raw.x>>,
     fb |-> fb_from_raw(raw.fb_id),
     gamma_length |-> raw.gamma_size]

load_info(handle, raw) ==
    [handle |-> handle,
     position |-> <<raw.x, raw.y>>,
     fb |-> fb_from_raw(raw.fb_id),
     gamma_length |-> raw.gamma_size]

load_result(handle, io) ==
    LET t == try(io.res)
    IN  IF t.ret THEN t.val ELSE Ok(load_info(handle, io.raw))

set_result(res) ==
    LET t == try(res) IN IF t.ret THEN t.val ELSE Ok(Unit)

set_cursor_result(res) ==
    LET t == try(res) IN IF t.ret THEN t.val ELSE Ok(Unit)

set_cursor2_result(res) ==
    LET t == try(res) IN IF t.ret THEN t.val ELSE Ok(Unit)

move_cursor_result(res) ==
    LET t == try(res) IN IF t.ret THEN t.val ELSE Ok(Unit)

\* Mutant of ioctl_of: move_cursor goes through the variant-2 ioctl.
ioctl_of_move_by_cursor2(op) ==
    CASE op = "load_from_device" -> "ioctl_mode_getcrtc"
      [] op = "set" -> "ioctl_mode_setcrtc"
      [] op = "set_cursor" -> "ioctl_mode_cursor"
      [] op = "set_cursor2" -> "ioctl_mode_cursor2"
      [] op = "move_cursor" -> "ioctl_mode_cursor2"

\* The ioctl each operation calls
ioctl_of(op) ==
    CASE op = "load_from_device" -> "ioctl_mode_getcrtc"
      [] op = "set" -> "ioctl_mode_setcrtc"
      [] op = "set_cursor" -> "ioctl_mode_cursor"
      [] op = "set_cursor2" -> "ioctl_mode_cursor2"
      [] op = "move_cursor" -> "ioctl_mode_cursor"

\* Mutant of ReturnInfo: a load also refreshes the values handed out before
\* for the same handle.
ReturnInfoRefreshing(held, res) ==
    IF res.ok
    THEN LET fresh == [i \in 1..Len(held) |->
                          IF held[i].handle = res.val.handle
                          THEN res.val ELSE held[i]]
         IN  IF Len(held) < MaxInfos THEN Append(fresh, res.val) ELSE fresh
    ELSE held

\* Ok(crtc) hands the caller a new Info value; the values handed out before
\* are copies of their own and stay as they are.  A caller holding MaxInfos
\* values lets the new one go.
ReturnInfo(held, res) ==
    IF res.ok /\ Len(held) < MaxInfos THEN Append(held, res.val) ELSE held

----------------------------------------------------------------------------
(* State machine *)

NoCall == [op |-> "none"]

Init ==
    /\ made = {[raw |-> r, handle |-> from_raw(r)] : r \in RawIds}
    /\ infos = <<>>
    /\ crtcState = [c \in DevCrtcs |-> InitCrtc]
    /\ issued = <<>>
    /\ wire = <<>>
    /\ lastCall = NoCall
    /\ lastReq = NoCall
    /\ lastRes = NoCall

\* Info::load_from_device(device, handle)
load_from_device(handle, out) ==
    LET raw == load_raw(handle)
        io == ioctl_mode_getcrtc(raw, out, crtcState)
        res == load_result(handle, io)
    IN  /\ Len(issued) < MaxCalls
        /\ out \in Outcomes(raw.crtc_id)
        /\ lastCall' = [op |-> "load_from_device", handle |-> handle]
        /\ lastReq' = [cat |-> ioctl_of("load_from_device"), rec |-> raw,
                       reply |-> io.raw, dev |-> crtcState, outcome |-> out]
        /\ lastRes' = res
        /\ issued' = Append(issued, [op |-> "load_from_device", ok |-> res.ok])
        /\ wire' = Append(wire, ioctl_of("load_from_device"))
        /\ infos' = ReturnInfo(infos, res)
        /\ UNCHANGED <<made, crtcState>>

\* set(device, handle, fb, cons, position, mode)
set(handle, fb, cons, position, mode, out) ==
    LET raw == set_raw(handle, fb, cons, position, mode)
        io == ioctl_mode_setcrtc(raw, out, crtcState)
        res == set_result(io.res)
    IN  /\ Len(issued) < MaxCalls
        /\ out \in Outcomes(raw.crtc_id)
        /\ lastCall' = [op |-> "set", handle |-> handle, fb |-> fb,
                        cons |-> cons, position |-> position, mode |-> mode]
        /\ lastReq' = [cat |-> ioctl_of("set"), rec |-> raw,
                       cons |-> ReadUser(raw.set_connectors_ptr,
                                         raw.count_connectors),
                       outcome |-> out]
        /\ lastRes' = res
        /\ issued' = Append(issued, [op |-> "set", ok |-> res.ok])
        /\ wire' = Append(wire, ioctl_of("set"))
        /\ crtcState' = io.st
        /\ UNCHANGED <<made, infos>>

\* set_cursor(device, handle, bo, dimensions)
set_cursor(handle, bo, dimensions, out) ==
    LET raw == set_cursor_raw(handle, bo, dimensions)
        res == set_cursor_result(ioctl_mode_cursor(raw, out))
    IN  /\ Len(issued) < MaxCalls
        /\ out \in Outcomes(raw.crtc_id)
        /\ lastCall' = [op |-> "set_cursor", handle |-> handle, bo |-> bo,
                        dimensions |-> dimensions]
        /\ lastReq' = [cat |-> ioctl_of("set_cursor"), rec |-> raw,
                       outcome |-> out]
        /\ lastRes' = res
        /\ issued' = Append(issued, [op |-> "set_cursor", ok |-> res.ok])
        /\ wire' = Append(wire, ioctl_of("set_cursor"))
        /\ UNCHANGED <<made, infos, crtcState>>

\* set_cursor2(device, handle, bo, dimensions, hotspot)
set_cursor2(handle, bo, dimensions, hotspot, out) ==
    LET raw == set_cursor2_raw(handle, bo, dimensions, hotspot)
        res == set_cursor2_result(ioctl_mode_cursor(raw, out))
    IN  /\ Len(issued) < MaxCalls
        /\ out \in Outcomes(raw.crtc_id)
        /\ lastCall' = [op |-> "set_cursor2", handle |-> handle, bo |-> bo,
                        dimensions |-> dimensions, hotspot |-> hotspot]
        /\ lastReq' = [cat |-> ioctl_of("set_cursor2"), rec |-> raw,
                       outcome |-> out]
        /\ lastRes' = res
        /\ issued' = Append(issued, [op |-> "set_cursor2", ok |-> res.ok])
        /\ wire' = Append(wire, ioctl_of("set_cursor2"))
        /\ UNCHANGED <<made, infos, crtcState>>

\* move_cursor(device, handle, to)
move_cursor(handle, to, out) ==
    LET raw == move_cursor_raw(handle, to)
        res == move_cursor_result(ioctl_mode_cursor(raw, out))
    IN  /\ Len(issued) < MaxCalls
        /\ out \in Outcomes(raw.crtc_id)
        /\ lastCall' = [op |-> "move_cursor", handle |-> handle, to |-> to]
        /\ lastReq' = [cat |-> ioctl_of("move_cursor"), rec |-> raw,
                       outcome |-> out]
        /\ lastRes' = res
        /\ issued' = Append(issued, [op |-> "move_cursor", ok |-> res.ok])
        /\ wire' = Append(wire, ioctl_of("move_cursor"))
        /\ UNCHANGED <<made, infos, crtcState>>

\* Another client of the same device commits a mode-set of its own.
KernelCommit(c, f, p) ==
    /\ crtcState' = [crtcState EXCEPT ![c] =
                        [@ EXCEPT !.x = p[1], !.y = p[2], !.fb_id = f]]
    /\ crtcState' # crtcState
    /\ UNCHANGED <<made, infos, issued, wire, lastCall, lastReq, lastRes>>

Next ==
    \/ \E m \in made : \E out \in Outcomes(m.raw) :
          load_from_device(m.handle, out)
    \/ \E m \in made : \E f \in FbIds, s \in Slices, p \in Positions,
          mo \in OptModes, out \in Outcomes(m.raw) :
          set(m.handle, fb_from_raw(f), s, p, mo, out)
    \/ \E m \in made : \E b \in BoIds, d \in DimensionsSet,
          out \in Outcomes(m.raw) :
          set_cursor(m.handle, <<b>>, d, out)
    \/ \E m \in made : \E b \in BoIds, d \in DimensionsSet, hs \in iPoints,
          out \in Outcomes(m.raw) :
          set_cursor2(m.handle, <<b>>, d, hs, out)
    \/ \E m \in made : \E to \in iPoints, out \in Outcomes(m.raw) :
          move_cursor(m.handle, to, out)
    \/ \E c \in DevCrtcs, f \in FbIds, p \in Positions : KernelCommit(c, f, p)

Spec == Init /\ [][Next]_vars

----------------------------------------------------------------------------
(* Properties *)

Ops == {"load_from_device", "set", "set_cursor", "set_cursor2", "move_cursor"}

Last(q) == q[Len(q)]

\* C1: a set call without a mode emits mode_valid = 0 and a zero timing block;
\* a set call with Some(mode) emits mode_valid = 1 and the mode's timing block.
C1_ModeValid ==
    lastCall.op = "set" =>
        /\ ~lastCall.mode.some =>
              /\ lastReq.rec.mode_valid = 0
              /\ lastReq.rec.mode = ZeroModeInfo
        /\ lastCall.mode.some =>
              /\ lastReq.rec.mode_valid = 1
              /\ lastReq.rec.mode = lastCall.mode.val.mode

C1_Witness ==
    /\ lastCall.op = "set"
    /\ lastCall.mode = Some([mode |-> Mode1080])
    /\ lastReq.rec.mode_valid = 1
    /\ lastReq.rec.mode = Mode1080

C3_ErrorPropagation ==
    (lastCall.op \in Ops /\ lastReq.outcome # "OK") =>
        /\ ~lastRes.ok
        /\ DOMAIN lastRes = {"ok", "err"}
        /\ lastRes.err.cause = lastReq.outcome
        /\ ~Last(issued).ok

C3_Witness ==
    /\ lastCall.op = "load_from_device"
    /\ as_raw(lastCall.handle) \in DevCrtcs
    /\ lastReq.outcome = "EINVAL"
    /\ ~lastRes.ok

\* C4: set_cursor and set_cursor2 emit DRM_MODE_CURSOR_BO; move_cursor emits
\* DRM_MODE_CURSOR_MOVE with the signed target in x and y and the buffer-object
\* handle, width and height left at zero.
C4_CursorFlags ==
    /\ lastCall.op \in {"set_cursor", "set_cursor2"} =>
          lastReq.rec.flags = DRM_MODE_CURSOR_BO
    /\ lastCall.op = "move_cursor" =>
          /\ lastReq.rec.flags = DRM_MODE_CURSOR_MOVE
          /\ lastReq.rec.x = lastCall.to[1]
          /\ lastReq.rec.y = lastCall.to[2]
          /\ lastReq.rec.handle = 0
          /\ lastReq.rec.width = 0
          /\ lastReq.rec.height = 0

C4_Witness ==
    /\ lastCall.op = "move_cursor"
    /\ lastCall.to = <<-1, -2147483647>>
    /\ lastReq.rec.x = -1
    /\ lastReq.rec.flags = DRM_MODE_CURSOR_MOVE

\* C5: set_cursor2's record carries the supplied hotspot next to the crtc_id,
\* buffer-object handle, width and height set_cursor emits for the same
\* arguments; set_cursor's record is the variant-1 record, without hotspot
\* fields.
C5_Hotspot ==
    /\ lastCall.op = "set_cursor2" =>
          /\ lastReq.rec.hot_x = lastCall.hotspot[1]
          /\ lastReq.rec.hot_y = lastCall.hotspot[2]
          /\ lastReq.rec.crtc_id = lastCall.handle[1]
          /\ lastReq.rec.handle = lastCall.bo[1]
          /\ lastReq.rec.width = lastCall.dimensions[1]
          /\ lastReq.rec.height = lastCall.dimensions[2]
    /\ lastCall.op = "set_cursor" =>
          /\ DOMAIN lastReq.rec = DOMAIN DefaultCursor
          /\ lastReq.rec.crtc_id = lastCall.handle[1]
          /\ lastReq.rec.handle = lastCall.bo[1]
          /\ lastReq.rec.width = lastCall.dimensions[1]
          /\ lastReq.rec.height = lastCall.dimensions[2]

C5_Witness ==
    /\ lastCall.op = "set_cursor2"
    /\ lastCall.hotspot = <<-1, -2147483647>>
    /\ lastCall.dimensions = <<64, 64>>
    /\ lastReq.rec.hot_y = -2147483647

\* C6: a successful load sends a zeroed get-CRTC record with only crtc_id set,
\* and returns an Info whose handle is the one passed in, whose position is the
\* returned (x, y), whose fb is the handle of the returned fb_id and whose
\* gamma_length is the returned gamma_size.
C6_LoadInfo ==
    lastCall.op = "load_from_device" =>
        /\ lastReq.rec = [DefaultCrtc EXCEPT !.crtc_id = lastCall.handle[1]]
        /\ lastRes.ok =>
              /\ lastRes.val.handle = lastCall.handle
              /\ lastRes.val.position = <<lastReq.reply.x, lastReq.reply.y>>
              /\ lastRes.val.fb[1] = lastReq.reply.fb_id
              /\ lastRes.val.gamma_length = lastReq.reply.gamma_size

C6_Witness ==
    /\ lastCall.op = "load_from_device"
    /\ lastRes.ok
    /\ lastRes.val.position = <<1, 2147483647>>
    /\ lastRes.val.fb = <<9>>
    /\ lastRes.val.gamma_length = 256

\* C7: as_raw(from_raw(r)) = r for every raw identifier, the null sentinel
\* included, and two handles are equal exactly when their raw identifiers are.
C7_RoundTrip ==
    /\ \A m \in made : as_raw(m.handle) = m.raw
    /\ \A m, n \in made : HandleEq(m.handle, n.handle) <=> m.raw = n.raw

C7_Witness ==
    /\ {m.raw : m \in made} = RawIds
    /\ lastCall.op = "set"
    /\ [raw |-> 65541, handle |-> lastCall.handle] \in made
    /\ lastReq.rec.crtc_id = 65541

\* C8: two successful loads of one handle in immediate succession, the device's
\* CRTC state being the same at both, return equal Info values; and no step
\* changes an Info value the caller already holds.
C8_SnapshotStep ==
    /\ ( /\ lastCall.op = "load_from_device"
         /\ lastRes.ok
         /\ issued' # issued
         /\ lastCall'.op = "load_from_device"
         /\ lastRes'.ok
         /\ lastCall'.handle = lastCall.handle
         /\ lastReq.dev = crtcState )
       => lastRes'.val = lastRes.val
    /\ Len(infos') >= Len(infos)
    /\ \A i \in 1..Len(infos) : infos'[i] = infos[i]

C9_SetFields ==
    lastCall.op = "set" =>
        /\ lastReq.rec.crtc_id = lastCall.handle[1]
        /\ lastReq.rec.fb_id = lastCall.fb[1]
        /\ lastReq.rec.x = lastCall.position[1]
        /\ lastReq.rec.y = lastCall.position[2]
        /\ lastReq.outcome = "OK" => lastRes = Ok(Unit)

C9_Witness ==
    /\ lastCall.op = "set"
    /\ lastCall.fb = <<0>>
    /\ lastCall.position = <<1, 2147483647>>
    /\ lastCall.mode.some
    /\ lastReq.rec.fb_id = 0
    /\ lastRes = Ok(Unit)

\* The request category each operation is to use
ExpectedCategory(op) ==
    CASE op = "load_from_device" -> "ioctl_mode_getcrtc"
      [] op = "set" -> "ioctl_mode_setcrtc"
      [] op = "set_cursor" -> "ioctl_mode_cursor"
      [] op = "set_cursor2" -> "ioctl_mode_cursor2"
      [] op = "move_cursor" -> "ioctl_mode_cursor"

\* The record an operation builds from its own arguments alone
RequestOf(call) ==
    CASE call.op = "load_from_device" -> load_raw(call.handle)
      [] call.op = "set" ->
            set_raw(call.handle, call.fb, call.cons, call.position, call.mode)
      [] call.op = "set_cursor" ->
            set_cursor_raw(call.handle, call.bo, call.dimensions)
      [] call.op = "set_cursor2" ->
            set_cursor2_raw(call.handle, call.bo, call.dimensions, call.hotspot)
      [] call.op = "move_cursor" -> move_cursor_raw(call.handle, call.to)

\* C10: every call, whether its exchange succeeds or fails, puts exactly one
\* exchange of its operation's category on the wire, after the exchanges of
\* the calls before it, and the record sent depends on that call's arguments
\* only; no exchange happens without a call.
C10_ExchangeStep ==
    /\ issued' # issued =>
          \E op \in Ops, ok \in BOOLEAN :
              /\ issued' = Append(issued, [op |-> op, ok |-> ok])
              /\ wire' = Append(wire, ExpectedCategory(op))
              /\ lastCall'.op = op
              /\ lastReq'.cat = ExpectedCategory(op)
              /\ lastReq'.rec = RequestOf(lastCall')
              /\ lastRes'.ok = ok
    /\ issued' = issued => wire' = wire

C10_OneExchange == [][C10_ExchangeStep]_vars

C10_Witness ==
    /\ Len(issued) = 2
    /\ Len(wire) = 2
    /\ ~issued[1].ok
    /\ issued[1].op = "set"
    /\ issued[2] = [op |-> "move_cursor", ok |-> TRUE]
    /\ wire = <<"ioctl_mode_setcrtc", "ioctl_mode_cursor">>

====
